---- MODULE Spec2Model ----
(***************************************************************************)
(* teeproxy: a reverse proxy that forwards every inbound request to a      *)
(* production target, relays that response to the caller, and replays a    *)
(* copy of the request against an alternative target in a goroutine.  A    *)
(* session cache (go-cache, 24h expiry) maps the production PHPSESSID to   *)
(* the alternative one.                                                    *)
(*                                                                         *)
(* Each element of Slots is one concurrently running ServeHTTP call and    *)
(* the goroutine it spawns; a slot is reused by the next inbound request   *)
(* once both have ended.  Time is counted in hours.                        *)
(***************************************************************************)
EXTENDS Integers, Sequences, FiniteSets, TLC

VARIABLES
    SessionCache,        \* handler.SessionCache: key -> [Object, Expiration]
    now,                 \* wall clock, hours
    processUp,           \* the serving process has not crashed
    hpc,                 \* per slot: position of ServeHTTP
    spc,                 \* per slot: position of the goroutine
    req,                 \* per slot: the inbound request, with the body bytes that could be read
    bodyErr,             \* per slot: the error of io.Copy that DuplicateRequest discards
    productionRequest,   \* per slot: copy sent to Target
    alternativeRequest,  \* per slot: copy sent to Alternative
    lookup,              \* per slot: result of the cache lookup
    resp,                \* per slot: response read from Target
    productionCookie,    \* per slot: FindCookie(resp, cookieName)
    w,                   \* per slot: what the handler wrote to the ResponseWriter
    client,              \* per slot: what the caller got when the handler returned
    toProduction,        \* per slot: request the production backend received
    toAlternative,       \* per slot: request the alternative backend received
    primaryErr,          \* per slot: how the production dispatch failed
    shadowErr,           \* per slot: how the alternative dispatch failed
    alternativeCookie,   \* per slot: FindCookie(alternativeResponse, cookieName)
    cacheWrite,          \* per slot: the <<key, value>> this request Set
    productionConn,      \* per slot: clientHttpConn of ServeHTTP
    alternativeConn,     \* per slot: clientHttpConn of the goroutine
    lastSet,             \* per key: the latest Set, <<value, time>>
    raced,               \* per slot: its Set ran while another goroutine with the same key was in flight
    dials,               \* per slot: the calls of net.DialTimeout made for this request, per backend
    inbound,             \* DuplicateRequest alone: the request passed in, its Header being an address
    heap,                \* DuplicateRequest alone: address of a header map -> its content
    copies,              \* DuplicateRequest alone: <<request1, request2>> once it has returned
    touched              \* DuplicateRequest alone: addresses of the header maps written to since

vars == <<SessionCache, now, processUp, hpc, spc, req, bodyErr, productionRequest,
          alternativeRequest, lookup, resp, productionCookie, w, client,
          toProduction, toAlternative, primaryErr, shadowErr,
          alternativeCookie, cacheWrite, productionConn, alternativeConn,
          lastSet, raced, dials, inbound, heap, copies, touched>>

----------------------------------------------------------------------------
(* Bounds and program constants *)

Slots == {"r1", "r2"}

\* clock step of the model and the last instant it reaches (hours)
TickStep == 12
MaxTime == 36

\* cache.New(24*time.Hour, 60*time.Minute)
DefaultExpiration == 24
CleanupInterval == 1

cookieName == "PHPSESSID"

\* a nil string, a nil *http.Cookie
Nil == "nil"
NilCookie == [Name |-> Nil, Value |-> Nil]

\* strings.EqualFold on the cookie names that occur: PHPSESSID, phpsessid, lang
Fold(name) == IF name \in {"PHPSESSID", "phpsessid"} THEN "phpsessid" ELSE name

EqualFold(s, t) == Fold(s) = Fold(t)

Cookie(name, value) == [Name |-> name, Value |-> value]

----------------------------------------------------------------------------
(* net/http: cookies of a request and of a response *)

\* req.Cookie(name): the first cookie with exactly that name, or nil (ErrNoCookie)
RequestCookie(request, name) ==
    LET hits == {i \in 1..Len(request.Cookie) : request.Cookie[i].Name = name}
    IN  IF hits = {} THEN NilCookie ELSE request.Cookie[CHOOSE i \in hits : \A j \in hits : i <= j]

\* the first cookie of the response whose name equals cookieName under case folding
FindCookie(response, name) ==
    LET hits == {i \in 1..Len(response.SetCookie) : EqualFold(response.SetCookie[i].Name, name)}
    IN  IF hits = {} THEN NilCookie ELSE response.SetCookie[CHOOSE i \in hits : \A j \in hits : i <= j]

\* a deletion of the session cookie alone, the other cookies kept
HeaderDelSessionCookie(request) == [request EXCEPT !.Cookie = SelectSeq(@, LAMBDA c : c.Name # cookieName)]

\* Header.Del("Cookie")
HeaderDelCookie(request) == [request EXCEPT !.Cookie = <<>>]

\* Request.AddCookie: only name=value is serialised, appended to the Cookie header
AddCookie(request, c) == [request EXCEPT !.Cookie = Append(@, Cookie(c.Name, c.Value))]

----------------------------------------------------------------------------
(* go-cache *)

\* an item taken as expired at the instant of its expiry
ExpiredAtDeadline(item, t) == item.Expiration > 0 /\ t >= item.Expiration

\* go-cache's expiry test: strictly after Expiration
Expired(item, t) == item.Expiration > 0 /\ t > item.Expiration

\* a Get that returns whatever is stored, leaving expiry to the janitor
CacheGetUnswept(c, k, t) == IF k \in DOMAIN c THEN c[k].Object ELSE Nil

\* Get: the stored object, or nil when the key is missing or its item has expired
CacheGet(c, k, t) == IF k \in DOMAIN c /\ ~Expired(c[k], t) THEN c[k].Object ELSE Nil

\* Add instead of Set: an unexpired item is kept
CacheAdd(c, k, v, t) == IF k \in DOMAIN c /\ ~(c[k].Expiration > 0 /\ t > c[k].Expiration) THEN c ELSE [x \in DOMAIN c \cup {k} |-> IF x = k THEN [Object |-> v, Expiration |-> t + DefaultExpiration] ELSE c[x]]

\* Set with cache.DefaultExpiration: insert or overwrite, expiry restarted
CacheSet(c, k, v, t) == [x \in DOMAIN c \cup {k} |-> IF x = k THEN [Object |-> v, Expiration |-> t + DefaultExpiration] ELSE c[x]]

\* the janitor's DeleteExpired
DeleteExpired(c, t) == [x \in {k \in DOMAIN c : ~Expired(c[k], t)} |-> c[x]]

----------------------------------------------------------------------------
(* DuplicateRequest and the cookie rewrite *)

\* <<request1, request2>>: two requests with their own header maps and with the
\* buffers b1 and b2 as bodies, which hold the bytes io.Copy read from the
\* inbound body before it met EOF or an error; ContentLength is taken over
DuplicateRequest(request) ==
    <<[Cookie |-> request.Cookie, Body |-> request.Body, ContentLength |-> request.ContentLength],
      [Cookie |-> request.Cookie, Body |-> request.Body, ContentLength |-> request.ContentLength]>>

\* Request.Write: a body shorter than a declared ContentLength is an error
Writable(request) == request.ContentLength < 0 \/ Len(request.Body) = request.ContentLength

\* a rewrite through a header map both copies share
RewriteCookieShared(reqs, cookie, alternativeSessionId) ==
    LET alternateCookie == Cookie(cookie.Name, alternativeSessionId)
        rewritten == AddCookie(HeaderDelCookie(reqs[1]), alternateCookie)
    IN  <<rewritten, rewritten>>

\* a rewrite that adds the cookie without deleting the Cookie header first
RewriteCookieNoDel(reqs, cookie, alternativeSessionId) ==
    LET alternateCookie == Cookie(cookie.Name, alternativeSessionId)
    IN  <<AddCookie(reqs[1], alternateCookie), reqs[2]>>

\* reqs = <<alternativeRequest, productionRequest>>; lines 48-59 touch the first only
RewriteCookie(reqs, cookie, alternativeSessionId) ==
    LET alternateCookie == Cookie(cookie.Name, alternativeSessionId)
    IN  <<AddCookie(HeaderDelCookie(reqs[1]), alternateCookie), reqs[2]>>

\* a lookup whose result is used without testing found
LookupAndRewriteUnchecked(reqs, request, c, t) ==
    LET cookie == RequestCookie(request, cookieName)
    IN  IF cookie = NilCookie THEN reqs
        ELSE RewriteCookie(reqs, cookie, CacheGet(c, cookie.Value, t))

\* lines 39-63: the pair of requests after the lookup
LookupAndRewrite(reqs, request, c, t) ==
    LET cookie == RequestCookie(request, cookieName)
    IN  IF cookie = NilCookie THEN reqs
        ELSE IF CacheGet(c, cookie.Value, t) # Nil
             THEN RewriteCookie(reqs, cookie, CacheGet(c, cookie.Value, t))
             ELSE reqs

\* what the lookup printed: nil without cookie, "MISS", or the mapped id on a HIT
LookupResult(request, c, t) ==
    LET cookie == RequestCookie(request, cookieName)
    IN  IF cookie = NilCookie THEN Nil
        ELSE IF CacheGet(c, cookie.Value, t) # Nil THEN CacheGet(c, cookie.Value, t) ELSE "MISS"

\* http.Serve ends a request whose handler wrote nothing with an empty 200
FinishRequest(written) == IF written = <<>> THEN [StatusCode |-> 200, SetCookie |-> <<>>, Body |-> "", ContentLength |-> 0] ELSE written[1]

\* lines 85-88: the headers (Content-Length among them) copied onto the
\* ResponseWriter and the status written; no body byte yet
WriteHeader(response) == [StatusCode |-> response.StatusCode, SetCookie |-> response.SetCookie, Body |-> "", ContentLength |-> response.ContentLength]

\* lines 89-90: the bytes ioutil.ReadAll returned, its error discarded, written
\* after the headers
WriteBody(written, body) == [written EXCEPT !.Body = body]

\* a handler that joined its goroutine before returning
MayReturnAfterGoroutine(r) == spc[r] \in {"none", "done"}

\* nothing between the go statement and the end of ServeHTTP waits for the goroutine
MayReturn(r) == TRUE

\* a goroutine without the deferred recover(): the panic ends the process
NotRecovered(up) == FALSE

\* lines 93-97: the deferred recover() keeps a panic inside the goroutine
Recovered(up) == up

\* a connection left as it is when the function ends
DeferredCloseMissing(conn) == conn

\* lines 72, 107: defer clientHttpConn.Close(), registered once the dial succeeded
DeferredClose(conn) == IF conn = "open" THEN "closed" ELSE conn

\* a Set keyed by the inbound request's cookie
SetKeyFromRequest(r) == RequestCookie(req[r][1], cookieName).Value

\* a Set keyed by a productionCookie shared between the handlers
SetKeyShared(r) == IF \E o \in Slots \ {r} : productionCookie[o] # NilCookie THEN productionCookie[CHOOSE o \in Slots \ {r} : productionCookie[o] # NilCookie].Value ELSE productionCookie[r].Value

\* line 126: the key and the value of the Set
SetKey(r) == productionCookie[r].Value

SetValue(r, found) == found.Value

----------------------------------------------------------------------------
(* Inputs *)

\* Cookie headers of inbound requests
RequestHeaders ==
    { <<>>,
      <<Cookie("PHPSESSID", "s1")>>,
      <<Cookie("PHPSESSID", "s2")>>,
      <<Cookie("phpsessid", "s1")>>,
      <<Cookie("lang", "en")>>,
      <<Cookie("lang", "en"), Cookie("PHPSESSID", "s1")>>,
      <<Cookie("PHPSESSID", "s2"), Cookie("lang", "en")>>,
      <<Cookie("PHPSESSID", "s1"), Cookie("PHPSESSID", "s2")>> }

\* a request without a body
NoBody(header) == [Cookie |-> header, Body |-> "", ContentLength |-> 0]

\* Body is what the inbound body yields before EOF or a read error.  The second
\* last request announces two bytes and yields one; the last is chunked
\* (ContentLength -1) and its one byte may be followed by EOF or by an error.
Requests ==
    {NoBody(h) : h \in RequestHeaders}
        \cup {[Cookie |-> <<Cookie("PHPSESSID", "s1")>>, Body |-> "a", ContentLength |-> 2],
              [Cookie |-> <<Cookie("PHPSESSID", "s1")>>, Body |-> "a", ContentLength |-> -1]}

\* the errors io.Copy can meet on the body of the request
BodyErrors(request) == IF request.ContentLength >= 0 THEN {Len(request.Body) < request.ContentLength} ELSE BOOLEAN

\* Set-Cookie headers and responses of the production backend
ProductionSetCookies ==
    { <<>>,
      <<Cookie("PHPSESSID", "s1")>>,
      <<Cookie("PHPSESSID", "s2")>>,
      <<Cookie("phpsessid", "s2")>>,
      <<Cookie("lang", "en"), Cookie("PHPSESSID", "s1")>> }

ProductionResponses ==
    {[StatusCode |-> 200, SetCookie |-> h, Body |-> "page", ContentLength |-> 4] : h \in ProductionSetCookies}
        \cup {[StatusCode |-> 500, SetCookie |-> <<>>, Body |-> "oops", ContentLength |-> 4],
              [StatusCode |-> 200, SetCookie |-> <<Cookie("PHPSESSID", "s1")>>, Body |-> "pa", ContentLength |-> 4]}

\* Set-Cookie headers and responses of the alternative backend
AlternativeSetCookies ==
    { <<>>,
      <<Cookie("PHPSESSID", "q1")>>,
      <<Cookie("PHPSESSID", "q2")>>,
      <<Cookie("phpsessid", "q2")>>,
      <<Cookie("lang", "en"), Cookie("PHPSESSID", "q1")>> }

AlternativeResponses == {[StatusCode |-> 200, SetCookie |-> h, Body |-> "page", ContentLength |-> 4] : h \in AlternativeSetCookies}

\* the inputs of the specification with overlapping requests
FewRequests == {NoBody(<<>>), NoBody(<<Cookie("PHPSESSID", "s1")>>)}

FewProductionResponses == {[StatusCode |-> 200, SetCookie |-> h, Body |-> "page", ContentLength |-> 4] : h \in {<<>>, <<Cookie("PHPSESSID", "s1")>>, <<Cookie("PHPSESSID", "s2")>>}}

FewAlternativeResponses == {[StatusCode |-> 200, SetCookie |-> h, Body |-> "page", ContentLength |-> 4] : h \in {<<>>, <<Cookie("PHPSESSID", "q1")>>, <<Cookie("PHPSESSID", "q2")>>}}

----------------------------------------------------------------------------
(* State *)

EmptyCache == [x \in {} |-> [Object |-> Nil, Expiration |-> 0]]

Init ==
    /\ SessionCache = EmptyCache
    /\ now = 0
    /\ processUp = TRUE
    /\ hpc = [r \in Slots |-> "idle"]
    /\ spc = [r \in Slots |-> "none"]
    /\ req = [r \in Slots |-> <<>>]
    /\ bodyErr = [r \in Slots |-> FALSE]
    /\ productionRequest = [r \in Slots |-> <<>>]
    /\ alternativeRequest = [r \in Slots |-> <<>>]
    /\ lookup = [r \in Slots |-> Nil]
    /\ resp = [r \in Slots |-> <<>>]
    /\ productionCookie = [r \in Slots |-> NilCookie]
    /\ w = [r \in Slots |-> <<>>]
    /\ client = [r \in Slots |-> <<>>]
    /\ toProduction = [r \in Slots |-> <<>>]
    /\ toAlternative = [r \in Slots |-> <<>>]
    /\ primaryErr = [r \in Slots |-> Nil]
    /\ shadowErr = [r \in Slots |-> Nil]
    /\ alternativeCookie = [r \in Slots |-> NilCookie]
    /\ cacheWrite = [r \in Slots |-> <<>>]
    /\ productionConn = [r \in Slots |-> "none"]
    /\ alternativeConn = [r \in Slots |-> "none"]
    /\ lastSet = EmptyCache
    /\ raced = [r \in Slots |-> FALSE]
    /\ dials = [r \in Slots |-> [production |-> 0, alternative |-> 0]]
    /\ inbound = <<>>
    /\ heap = <<>>
    /\ copies = <<>>
    /\ touched = {}

cacheVars == <<SessionCache, lastSet>>
handlerVars == <<hpc, req, bodyErr, productionRequest, alternativeRequest, lookup, resp, productionCookie, w, client, toProduction, primaryErr, productionConn>>
goroutineVars == <<spc, toAlternative, shadowErr, alternativeCookie, cacheWrite, alternativeConn, raced>>
duplicateVars == <<inbound, heap, copies, touched>>

\* the goroutine of slot r is between its start and its end
InFlight(r) == spc[r] \in {"dial", "write", "read"}

----------------------------------------------------------------------------
(* ServeHTTP *)

\* lines 36-63: a request arrives; it is duplicated, the cache is consulted and
\* the alternative copy's cookie rewritten on a hit
Receive(r, request) ==
    /\ processUp
    /\ hpc[r] \in {"idle", "done"}
    /\ spc[r] \in {"none", "done"}
    /\ LET reqs == LookupAndRewrite(DuplicateRequest(request), request, SessionCache, now)
       IN  /\ alternativeRequest' = [alternativeRequest EXCEPT ![r] = <<reqs[1]>>]
           /\ productionRequest' = [productionRequest EXCEPT ![r] = <<reqs[2]>>]
    /\ lookup' = [lookup EXCEPT ![r] = LookupResult(request, SessionCache, now)]
    /\ req' = [req EXCEPT ![r] = <<request>>]
    /\ \E err \in BodyErrors(request) : bodyErr' = [bodyErr EXCEPT ![r] = err]
    /\ hpc' = [hpc EXCEPT ![r] = "dial"]
    /\ spc' = [spc EXCEPT ![r] = "none"]
    /\ resp' = [resp EXCEPT ![r] = <<>>]
    /\ productionCookie' = [productionCookie EXCEPT ![r] = NilCookie]
    /\ w' = [w EXCEPT ![r] = <<>>]
    /\ client' = [client EXCEPT ![r] = <<>>]
    /\ toProduction' = [toProduction EXCEPT ![r] = <<>>]
    /\ toAlternative' = [toAlternative EXCEPT ![r] = <<>>]
    /\ primaryErr' = [primaryErr EXCEPT ![r] = Nil]
    /\ shadowErr' = [shadowErr EXCEPT ![r] = Nil]
    /\ alternativeCookie' = [alternativeCookie EXCEPT ![r] = NilCookie]
    /\ cacheWrite' = [cacheWrite EXCEPT ![r] = <<>>]
    /\ productionConn' = [productionConn EXCEPT ![r] = "none"]
    /\ alternativeConn' = [alternativeConn EXCEPT ![r] = "none"]
    /\ raced' = [raced EXCEPT ![r] = FALSE]
    /\ UNCHANGED <<cacheVars, now, processUp>>
    /\ dials' = [dials EXCEPT ![r] = [production |-> 0, alternative |-> 0]]
    /\ UNCHANGED duplicateVars

\* a dial that is tried a second time after a first failure
DialProductionRetry(r, ok) ==
    /\ processUp
    /\ hpc[r] = "dial"
    /\ IF ok
       THEN /\ hpc' = [hpc EXCEPT ![r] = "write"]
            /\ productionConn' = [productionConn EXCEPT ![r] = "open"]
            /\ UNCHANGED primaryErr
       ELSE IF dials[r].production = 0
            THEN UNCHANGED <<hpc, primaryErr, productionConn>>
            ELSE /\ hpc' = [hpc EXCEPT ![r] = "ret"]
                 /\ primaryErr' = [primaryErr EXCEPT ![r] = "connect"]
                 /\ UNCHANGED productionConn
    /\ UNCHANGED <<cacheVars, goroutineVars, now, processUp, req, bodyErr, productionRequest, alternativeRequest, lookup, resp, productionCookie, w, client, toProduction>>
    /\ dials' = [dials EXCEPT ![r].production = @ + 1]
    /\ UNCHANGED duplicateVars

\* lines 66-70: net.DialTimeout to Target
DialProduction(r, ok) ==
    /\ processUp
    /\ hpc[r] = "dial"
    /\ IF ok
       THEN /\ hpc' = [hpc EXCEPT ![r] = "write"]
            /\ productionConn' = [productionConn EXCEPT ![r] = "open"]
            /\ UNCHANGED primaryErr
       ELSE /\ hpc' = [hpc EXCEPT ![r] = "ret"]
            /\ primaryErr' = [primaryErr EXCEPT ![r] = "connect"]
            /\ UNCHANGED productionConn
    /\ UNCHANGED <<cacheVars, goroutineVars, now, processUp, req, bodyErr, productionRequest, alternativeRequest, lookup, resp, productionCookie, w, client, toProduction>>
    /\ dials' = [dials EXCEPT ![r].production = @ + 1]
    /\ UNCHANGED duplicateVars

\* lines 71-77: the production copy is written to the connection
WriteProduction(r, ok) ==
    /\ processUp
    /\ hpc[r] = "write"
    /\ ok => Writable(productionRequest[r][1])
    /\ IF ok
       THEN /\ hpc' = [hpc EXCEPT ![r] = "read"]
            /\ toProduction' = [toProduction EXCEPT ![r] = Append(@, productionRequest[r][1])]
            /\ UNCHANGED primaryErr
       ELSE /\ hpc' = [hpc EXCEPT ![r] = "ret"]
            /\ primaryErr' = [primaryErr EXCEPT ![r] = "send"]
            /\ UNCHANGED toProduction
    /\ UNCHANGED <<cacheVars, goroutineVars, now, processUp, req, bodyErr, productionRequest, alternativeRequest, lookup, resp, productionCookie, w, client, productionConn>>
    /\ UNCHANGED <<dials, duplicateVars>>

\* lines 78-82: the reply is read; result is <<>> on a read error
ReadProduction(r, result) ==
    /\ processUp
    /\ hpc[r] = "read"
    /\ IF result # <<>>
       THEN /\ hpc' = [hpc EXCEPT ![r] = "relay"]
            /\ resp' = [resp EXCEPT ![r] = result]
            /\ UNCHANGED primaryErr
       ELSE /\ hpc' = [hpc EXCEPT ![r] = "ret"]
            /\ primaryErr' = [primaryErr EXCEPT ![r] = "receive"]
            /\ UNCHANGED resp
    /\ UNCHANGED <<cacheVars, goroutineVars, now, processUp, req, bodyErr, productionRequest, alternativeRequest, lookup, productionCookie, w, client, toProduction, productionConn>>
    /\ UNCHANGED <<dials, duplicateVars>>

\* lines 84-88: the session cookie is picked, the headers are copied and the
\* status is written to the caller
RelayHeader(r) ==
    /\ processUp
    /\ hpc[r] = "relay"
    /\ productionCookie' = [productionCookie EXCEPT ![r] = FindCookie(resp[r][1], cookieName)]
    /\ w' = [w EXCEPT ![r] = Append(@, WriteHeader(resp[r][1]))]
    /\ hpc' = [hpc EXCEPT ![r] = "body"]
    /\ UNCHANGED <<cacheVars, goroutineVars, now, processUp, req, bodyErr, productionRequest, alternativeRequest, lookup, resp, client, toProduction, primaryErr, productionConn>>
    /\ UNCHANGED <<dials, duplicateVars>>

\* lines 89-90: the handler waits for the body of the production response and
\* writes to the caller what arrived of it
RelayBody(r) ==
    /\ processUp
    /\ hpc[r] = "body"
    /\ w' = [w EXCEPT ![r] = <<WriteBody(@[1], resp[r][1].Body)>>]
    /\ hpc' = [hpc EXCEPT ![r] = "go"]
    /\ UNCHANGED <<cacheVars, goroutineVars, now, processUp, req, bodyErr, productionRequest, alternativeRequest, lookup, resp, productionCookie, client, toProduction, primaryErr, productionConn>>
    /\ UNCHANGED <<dials, duplicateVars>>

\* the go statement placed before the relay of the response
SpawnBeforeRelay(r) ==
    /\ processUp
    /\ \/ hpc[r] = "relay" /\ spc[r] = "none" /\ spc' = [spc EXCEPT ![r] = "dial"] /\ UNCHANGED hpc
       \/ hpc[r] = "go" /\ hpc' = [hpc EXCEPT ![r] = "ret"] /\ UNCHANGED spc
    /\ UNCHANGED <<cacheVars, now, processUp, req, bodyErr, productionRequest, alternativeRequest, lookup, resp, productionCookie, w, client, toProduction, primaryErr, productionConn, toAlternative, shadowErr, alternativeCookie, cacheWrite, alternativeConn, raced>>
    /\ UNCHANGED <<dials, duplicateVars>>

\* line 92: go func()
Spawn(r) ==
    /\ processUp
    /\ hpc[r] = "go"
    /\ hpc' = [hpc EXCEPT ![r] = "ret"]
    /\ spc' = [spc EXCEPT ![r] = "dial"]
    /\ UNCHANGED <<cacheVars, now, processUp, req, bodyErr, productionRequest, alternativeRequest, lookup, resp, productionCookie, w, client, toProduction, primaryErr, productionConn, toAlternative, shadowErr, alternativeCookie, cacheWrite, alternativeConn, raced>>
    /\ UNCHANGED <<dials, duplicateVars>>

\* lines 69, 76, 81, 135: ServeHTTP returns; the deferred Close runs and the
\* server completes the response
Return(r) ==
    /\ processUp
    /\ hpc[r] = "ret"
    /\ MayReturn(r)
    /\ hpc' = [hpc EXCEPT ![r] = "done"]
    /\ productionConn' = [productionConn EXCEPT ![r] = DeferredClose(@)]
    /\ client' = [client EXCEPT ![r] = <<FinishRequest(w[r])>>]
    /\ UNCHANGED <<cacheVars, goroutineVars, now, processUp, req, bodyErr, productionRequest, alternativeRequest, lookup, resp, productionCookie, w, toProduction, primaryErr>>
    /\ UNCHANGED <<dials, duplicateVars>>

----------------------------------------------------------------------------
(* The goroutine of lines 92-129 *)

\* alternative dispatches taken one at a time: the dial waits for the other goroutines
DialAlternativeSerialized(r, ok) ==
    /\ processUp
    /\ spc[r] = "dial"
    /\ \A o \in Slots \ {r} : spc[o] \notin {"write", "read"}
    /\ IF ok
       THEN /\ spc' = [spc EXCEPT ![r] = "write"]
            /\ alternativeConn' = [alternativeConn EXCEPT ![r] = "open"]
            /\ UNCHANGED shadowErr
       ELSE /\ spc' = [spc EXCEPT ![r] = "done"]
            /\ shadowErr' = [shadowErr EXCEPT ![r] = "connect"]
            /\ UNCHANGED alternativeConn
    /\ UNCHANGED <<cacheVars, handlerVars, now, processUp, toAlternative, alternativeCookie, cacheWrite, raced>>
    /\ dials' = [dials EXCEPT ![r].alternative = @ + 1]
    /\ UNCHANGED duplicateVars

\* lines 99-105: net.DialTimeout to Alternative
DialAlternative(r, ok) ==
    /\ processUp
    /\ spc[r] = "dial"
    /\ IF ok
       THEN /\ spc' = [spc EXCEPT ![r] = "write"]
            /\ alternativeConn' = [alternativeConn EXCEPT ![r] = "open"]
            /\ UNCHANGED shadowErr
       ELSE /\ spc' = [spc EXCEPT ![r] = "done"]
            /\ shadowErr' = [shadowErr EXCEPT ![r] = "connect"]
            /\ UNCHANGED alternativeConn
    /\ UNCHANGED <<cacheVars, handlerVars, now, processUp, toAlternative, alternativeCookie, cacheWrite, raced>>
    /\ dials' = [dials EXCEPT ![r].alternative = @ + 1]
    /\ UNCHANGED duplicateVars

\* lines 106-114: the alternative copy is written to the connection
WriteAlternative(r, ok) ==
    /\ processUp
    /\ spc[r] = "write"
    /\ ok => Writable(alternativeRequest[r][1])
    /\ IF ok
       THEN /\ spc' = [spc EXCEPT ![r] = "read"]
            /\ toAlternative' = [toAlternative EXCEPT ![r] = Append(@, alternativeRequest[r][1])]
            /\ UNCHANGED <<shadowErr, alternativeConn>>
       ELSE /\ spc' = [spc EXCEPT ![r] = "done"]
            /\ shadowErr' = [shadowErr EXCEPT ![r] = "send"]
            /\ alternativeConn' = [alternativeConn EXCEPT ![r] = "closed"]
            /\ UNCHANGED toAlternative
    /\ UNCHANGED <<cacheVars, handlerVars, now, processUp, alternativeCookie, cacheWrite, raced>>
    /\ UNCHANGED <<dials, duplicateVars>>

\* lines 115-129: the reply is read (result is <<>> on a read error); when the
\* production response carried the session cookie the reply is searched for
\* one, and when it carries one too the mapping is stored
ReadAlternative(r, result) ==
    /\ processUp
    /\ spc[r] = "read"
    /\ spc' = [spc EXCEPT ![r] = "done"]
    /\ alternativeConn' = [alternativeConn EXCEPT ![r] = "closed"]
    /\ IF result = <<>>
       THEN /\ shadowErr' = [shadowErr EXCEPT ![r] = "receive"]
            /\ UNCHANGED <<cacheVars, alternativeCookie, cacheWrite, raced>>
       ELSE /\ UNCHANGED shadowErr
            /\ IF productionCookie[r] # NilCookie
               THEN LET found == FindCookie(result[1], cookieName)
                    IN  /\ alternativeCookie' = [alternativeCookie EXCEPT ![r] = found]
                        /\ IF found # NilCookie
                           THEN LET k == SetKey(r)
                                    v == SetValue(r, found)
                                IN  /\ SessionCache' = CacheSet(SessionCache, k, v, now)
                                    /\ cacheWrite' = [cacheWrite EXCEPT ![r] = Append(@, <<k, v>>)]
                                    /\ lastSet' = [x \in DOMAIN lastSet \cup {k} |-> IF x = k THEN [Object |-> v, Expiration |-> now + DefaultExpiration] ELSE lastSet[x]]
                                    /\ raced' = [raced EXCEPT ![r] = \E o \in Slots \ {r} : InFlight(o) /\ productionCookie[o].Value = k]
                           ELSE UNCHANGED <<cacheVars, cacheWrite, raced>>
               ELSE UNCHANGED <<cacheVars, alternativeCookie, cacheWrite, raced>>
    /\ UNCHANGED <<handlerVars, now, processUp, toAlternative>>
    /\ UNCHANGED <<dials, duplicateVars>>

\* lines 93-97: a panic anywhere in the goroutine unwinds to the deferred recover;
\* the first call after the defer being net.DialTimeout, a panic at "dial" is one in it
PanicAlternative(r) ==
    /\ processUp
    /\ InFlight(r)
    /\ spc' = [spc EXCEPT ![r] = "done"]
    /\ shadowErr' = [shadowErr EXCEPT ![r] = "panic"]
    /\ alternativeConn' = [alternativeConn EXCEPT ![r] = DeferredClose(@)]
    /\ processUp' = Recovered(processUp)
    /\ UNCHANGED <<cacheVars, handlerVars, now, toAlternative, alternativeCookie, cacheWrite, raced>>
    /\ dials' = [dials EXCEPT ![r].alternative = IF spc[r] = "dial" THEN @ + 1 ELSE @]
    /\ UNCHANGED duplicateVars

----------------------------------------------------------------------------
(* Time and the cache's janitor *)

Tick ==
    /\ now + TickStep <= MaxTime
    /\ now' = now + TickStep
    /\ UNCHANGED <<cacheVars, handlerVars, goroutineVars, processUp>>
    /\ UNCHANGED <<dials, duplicateVars>>

\* line 149: every CleanupInterval the janitor deletes the expired items
Janitor ==
    /\ processUp
    /\ now >= CleanupInterval
    /\ \E k \in DOMAIN SessionCache : Expired(SessionCache[k], now)
    /\ SessionCache' = DeleteExpired(SessionCache, now)
    /\ UNCHANGED <<lastSet, handlerVars, goroutineVars, now, processUp>>
    /\ UNCHANGED <<dials, duplicateVars>>

----------------------------------------------------------------------------

\* a result of reading a reply: <<>> for a read error, or the response
Results(responses) == {<<>>} \cup {<<x>> : x \in responses}

HandlerStep(r, requests, responses) ==
    \/ \E request \in requests : Receive(r, request)
    \/ \E ok \in BOOLEAN : DialProduction(r, ok)
    \/ \E ok \in BOOLEAN : WriteProduction(r, ok)
    \/ \E result \in Results(responses) : ReadProduction(r, result)
    \/ RelayHeader(r)
    \/ RelayBody(r)
    \/ Spawn(r)
    \/ Return(r)

GoroutineStep(r, responses) ==
    \/ \E ok \in BOOLEAN : DialAlternative(r, ok)
    \/ \E ok \in BOOLEAN : WriteAlternative(r, ok)
    \/ \E result \in Results(responses) : ReadAlternative(r, result)
    \/ PanicAlternative(r)

\* one request at a time, with time passing
Next ==
    \/ HandlerStep("r1", Requests, ProductionResponses)
    \/ GoroutineStep("r1", AlternativeResponses)
    \/ Tick
    \/ Janitor

Spec == Init /\ [][Next]_vars

\* overlapping requests
NextConcurrent ==
    \/ \E r \in Slots : HandlerStep(r, FewRequests, FewProductionResponses)
    \/ \E r \in Slots : GoroutineStep(r, FewAlternativeResponses)

SpecConcurrent == Init /\ [][NextConcurrent]_vars

----------------------------------------------------------------------------
(* DuplicateRequest on its own.  heap.maps holds the header maps by address  *)
(* (key -> address of the key's list) and heap.lists the lists of values by  *)
(* address; a line of a header is a sequence of tokens.                      *)

\* a header without keys
NoHeader == [k \in {} |-> <<>>]

\* the most lists allocated after DuplicateRequest has returned
MaxAllocations == 2

\* the header keys that occur, in the order the model visits them
KeyOrder == <<"Accept", "Cookie">>

\* the keys of a header map in that order
KeysOf(header) == SelectSeq(KeyOrder, LAMBDA k : k \in DOMAIN header)

\* what a request sees through its header map: key -> lines
View(h, m) == [k \in DOMAIN h.maps[m] |-> h.lists[h.maps[m][k]]]

\* Header.Get: the first line of the key, empty when there is none
HeaderGet(h, m, key) == IF key \in DOMAIN h.maps[m] /\ h.lists[h.maps[m][key]] # <<>> THEN h.lists[h.maps[m][key]][1] ELSE <<>>

\* Header.Set: the key is given a new list of one line
HeaderSet(h, m, key, line) ==
    [maps |-> [h.maps EXCEPT ![m] = [k \in DOMAIN @ \cup {key} |-> IF k = key THEN Len(h.lists) + 1 ELSE @[k]]],
     lists |-> Append(h.lists, <<line>>)]

\* Header.Del: the key leaves the map
HeaderDel(h, m, key) == [h EXCEPT !.maps[m] = [k \in DOMAIN @ \ {key} |-> @[k]]]

\* Header.Add: append to a list without spare capacity, so a new list with the
\* line appended takes the key
HeaderAdd(h, m, key, line) ==
    [maps |-> [h.maps EXCEPT ![m] = [k \in DOMAIN @ \cup {key} |-> IF k = key THEN Len(h.lists) + 1 ELSE @[k]]],
     lists |-> Append(h.lists, IF key \in DOMAIN h.maps[m] THEN Append(h.lists[h.maps[m][key]], line) ELSE <<line>>)]

\* header[key][j] = line: a write into the key's list where it lies
HeaderWrite(h, m, key, j, line) == [h EXCEPT !.lists[h.maps[m][key]][j] = line]

\* Request.AddCookie: joined to the first Cookie line, or a Cookie line of its own
HeaderAddCookie(h, m, s) ==
    IF HeaderGet(h, m, "Cookie") # <<>>
    THEN HeaderSet(h, m, "Cookie", Append(HeaderGet(h, m, "Cookie"), s))
    ELSE HeaderSet(h, m, "Cookie", <<s>>)

\* header1[k] = v and header2[k] = v: two new maps whose keys share the lists
\* of the request
DuplicateHeadersShallow(h, src) ==
    [heap |-> [maps |-> [a \in DOMAIN h.maps \cup {"header1", "header2"} |->
                            IF a \in {"header1", "header2"} THEN h.maps[src] ELSE h.maps[a]],
               lists |-> h.lists],
     header1 |-> "header1",
     header2 |-> "header2"]

\* lines 176-186: two new maps; for every key a new list values1 with the
\* key's lines copied into it goes to header1, and a new list values2 to header2
DuplicateHeaders(h, src) ==
    LET ks == KeysOf(h.maps[src])
        n == Len(h.lists)
        pos(k) == CHOOSE j \in 1..Len(ks) : ks[j] = k
    IN  [heap |-> [maps |-> [a \in DOMAIN h.maps \cup {"header1", "header2"} |->
                                IF a = "header1" THEN [k \in DOMAIN h.maps[src] |-> n + 2 * pos(k) - 1]
                                ELSE IF a = "header2" THEN [k \in DOMAIN h.maps[src] |-> n + 2 * pos(k)]
                                ELSE h.maps[a]],
                   lists |-> h.lists \o [i \in 1..(2 * Len(ks)) |-> h.lists[h.maps[src][ks[(i + 1) \div 2]]]]],
         header1 |-> "header1",
         header2 |-> "header2"]

\* lines 188-209: the fields of a copy; body is the bytes io.Copy put into its buffer
DuplicateFields(request, header, body) ==
    [Method |-> request.Method, URL |-> request.URL, Proto |-> "HTTP/1.1", Header |-> header,
     Body |-> body, Host |-> request.Host, ContentLength |-> request.ContentLength]

\* requests passed to DuplicateRequest; Header is the content of the header map
DuplicateInputs ==
    { [Method |-> "GET", URL |-> "/", Proto |-> "HTTP/1.1", Header |-> NoHeader,
       Body |-> "", Host |-> "a.test", ContentLength |-> 0],
      [Method |-> "GET", URL |-> "/cart?id=1", Proto |-> "HTTP/1.0", Header |-> [k \in {"Cookie"} |-> << <<"PHPSESSID=s1">> >>],
       Body |-> "", Host |-> "a.test", ContentLength |-> 0],
      [Method |-> "POST", URL |-> "/login", Proto |-> "HTTP/1.1",
       Header |-> [k \in {"Cookie", "Accept"} |-> IF k = "Cookie" THEN << <<"lang=en", "PHPSESSID=s1">> >> ELSE << <<"text/html">>, <<"*/*">> >>],
       Body |-> "ab", Host |-> "b.test", ContentLength |-> 2],
      [Method |-> "POST", URL |-> "/login", Proto |-> "HTTP/1.1",
       Header |-> [k \in {"Cookie"} |-> << <<"lang=en">>, <<"PHPSESSID=s2">> >>],
       Body |-> "a", Host |-> "b.test", ContentLength |-> -1] }

\* the request's header laid out on a heap: one list per key
HeapOf(header) ==
    LET ks == KeysOf(header)
    IN  [maps |-> [a \in {"request.Header"} |-> [k \in DOMAIN header |-> CHOOSE j \in 1..Len(ks) : ks[j] = k]],
         lists |-> [j \in 1..Len(ks) |-> header[ks[j]]]]

\* a list may still be allocated
MayAllocate == Len(heap.lists) < 3 * Len(KeysOf(inbound[1].Header)) + MaxAllocations

\* line 37: DuplicateRequest is called with a request whose header map is on the heap
Call(request) ==
    /\ inbound = <<>>
    /\ inbound' = <<request>>
    /\ heap' = HeapOf(request.Header)
    /\ UNCHANGED <<copies, touched>>
    /\ UNCHANGED <<cacheVars, handlerVars, goroutineVars, now, processUp, dials>>

\* lines 169-211
Duplicate ==
    /\ inbound # <<>>
    /\ copies = <<>>
    /\ LET d == DuplicateHeaders(heap, "request.Header")
       IN  /\ heap' = d.heap
           /\ copies' = <<DuplicateFields(inbound[1], d.header1, inbound[1].Body),
                          DuplicateFields(inbound[1], d.header2, inbound[1].Body)>>
    /\ UNCHANGED <<inbound, touched>>
    /\ UNCHANGED <<cacheVars, handlerVars, goroutineVars, now, processUp, dials>>

\* line 58, on either copy: Header.Del("Cookie")
DelCookie(i) ==
    /\ copies # <<>>
    /\ heap' = HeaderDel(heap, copies[i].Header, "Cookie")
    /\ touched' = touched \cup {i}
    /\ UNCHANGED <<inbound, copies>>
    /\ UNCHANGED <<cacheVars, handlerVars, goroutineVars, now, processUp, dials>>

\* line 59, on either copy: AddCookie
AddCookieTo(i, s) ==
    /\ copies # <<>>
    /\ MayAllocate
    /\ heap' = HeaderAddCookie(heap, copies[i].Header, s)
    /\ touched' = touched \cup {i}
    /\ UNCHANGED <<inbound, copies>>
    /\ UNCHANGED <<cacheVars, handlerVars, goroutineVars, now, processUp, dials>>

\* line 176, "we want to modify them later": a line is appended to a key of a copy
AddValue(i, key, line) ==
    /\ copies # <<>>
    /\ MayAllocate
    /\ heap' = HeaderAdd(heap, copies[i].Header, key, line)
    /\ touched' = touched \cup {i}
    /\ UNCHANGED <<inbound, copies>>
    /\ UNCHANGED <<cacheVars, handlerVars, goroutineVars, now, processUp, dials>>

\* line 176, "we want to modify them later": a line of a key of a copy is overwritten
WriteValue(i, key, j, line) ==
    /\ copies # <<>>
    /\ key \in DOMAIN heap.maps[copies[i].Header]
    /\ j \in 1..Len(heap.lists[heap.maps[copies[i].Header][key]])
    /\ heap' = HeaderWrite(heap, copies[i].Header, key, j, line)
    /\ touched' = touched \cup {i}
    /\ UNCHANGED <<inbound, copies>>
    /\ UNCHANGED <<cacheVars, handlerVars, goroutineVars, now, processUp, dials>>

NextDuplicate ==
    \/ \E request \in DuplicateInputs : Call(request)
    \/ Duplicate
    \/ \E i \in {1, 2} : DelCookie(i)
    \/ \E i \in {1, 2} : AddCookieTo(i, "PHPSESSID=q1")
    \/ \E i \in {1, 2} : AddValue(i, "Accept", <<"text/plain">>)
    \/ \E i \in {1, 2}, key \in {"Accept", "Cookie"}, j \in {1, 2} : WriteValue(i, key, j, <<"text/plain">>)

SpecDuplicate == Init /\ [][NextDuplicate]_vars

----------------------------------------------------------------------------
(* Properties *)

\* the production dispatch of slot r succeeded and its handler has returned
Served(r) == hpc[r] = "done" /\ primaryErr[r] = Nil

\* the empty 200 a caller gets when the handler wrote nothing
EmptyOK == [StatusCode |-> 200, SetCookie |-> <<>>, Body |-> "", ContentLength |-> 0]

\* C1: once the production reply is read, every remaining step of ServeHTTP
\* (relay, go, return) can be taken whatever the goroutine is doing, and when
\* the handler has returned the caller holds the complete production response,
\* status, headers and body.
NonBlockingShadow ==
    \A r \in Slots :
        /\ hpc[r] \in {"relay", "body", "go", "ret"} => ENABLED (RelayHeader(r) \/ RelayBody(r) \/ Spawn(r) \/ Return(r))
        /\ Served(r) => client[r] = resp[r] /\ resp[r] # <<>>

\* the handler has returned with the full response while its goroutine still
\* waits for the alternative backend, and the other slot's goroutine as well
NonBlockingShadowWitness ==
    /\ Served("r1") /\ client["r1"] = resp["r1"] /\ spc["r1"] = "read"
    /\ Served("r2") /\ spc["r2"] = "dial"

\* C2: what the production backend receives is the inbound request, and what
\* the caller receives is the production response (or the empty reply of a
\* failed dispatch): both are functions of the inbound request and of the
\* production backend alone, so no behaviour of the alternative backend and no
\* cache content can change them.
ShadowNonInterference ==
    \A r \in Slots :
        /\ productionRequest[r] = req[r]
        /\ toProduction[r] \in {<<>>, req[r]}
        /\ \/ w[r] = <<>>
           \/ resp[r] # <<>> /\ w[r] = IF hpc[r] = "body" THEN <<[resp[r][1] EXCEPT !.Body = ""]>> ELSE resp[r]
        /\ client[r] # <<>> => client[r] = IF resp[r] # <<>> THEN resp[r] ELSE <<EmptyOK>>

\* a request served on a cache hit whose goroutine then stored a new mapping
ShadowNonInterferenceWitness ==
    /\ Served("r1") /\ lookup["r1"] = "q1"
    /\ toProduction["r1"] = req["r1"] /\ client["r1"] = resp["r1"]
    /\ toAlternative["r1"] # <<>> /\ toAlternative["r1"] # req["r1"]
    /\ cacheWrite["r1"] = << <<"s2", "q2">> >>

\* C3: after a failed production dispatch the handler has written nothing, the
\* caller is left without any response, no goroutine was started, nothing was
\* sent to the alternative backend and the cache was not written.
PrimaryFailureAborts ==
    \A r \in Slots :
        hpc[r] = "done" /\ primaryErr[r] # Nil =>
            /\ w[r] = <<>>
            /\ client[r] = <<>>
            /\ spc[r] = "none"
            /\ toAlternative[r] = <<>>
            /\ cacheWrite[r] = <<>>

\* the part of C3 that does not depend on how the server ends the request:
\* nothing written by the handler, no goroutine, nothing sent, no Set
PrimaryFailureNoShadow ==
    \A r \in Slots :
        primaryErr[r] # Nil =>
            /\ w[r] = <<>>
            /\ spc[r] = "none"
            /\ toAlternative[r] = <<>>
            /\ cacheWrite[r] = <<>>

\* C4: when the goroutine ended by a connect, send or receive error or by a
\* panic, the process is still up, the handler's response to the caller is the
\* full production response, this request has written nothing to the cache,
\* and the next request can be received.
ShadowFailureContained ==
    \A r \in Slots :
        spc[r] = "done" /\ shadowErr[r] # Nil =>
            /\ processUp
            /\ cacheWrite[r] = <<>>
            /\ resp[r] # <<>> /\ w[r] = resp[r]
            /\ hpc[r] = "done" => client[r] = resp[r] /\ ENABLED Receive(r, NoBody(<<>>))

\* a goroutine that panicked after the caller got its response
ShadowFailureContainedWitness ==
    /\ shadowErr["r1"] = "panic" /\ spc["r1"] = "done"
    /\ hpc["r1"] = "done" /\ client["r1"] = resp["r1"] /\ resp["r1"] # <<>>

\* the values of the cookies of a header that carry the designated name
SessionValues(header) == {header[i].Value : i \in {j \in 1..Len(header) : header[j].Name = cookieName}}

\* the values of the Set-Cookie entries named like the session cookie
SessionSetCookies(header) == SelectSeq(header, LAMBDA c : EqualFold(c.Name, cookieName))

\* the value of the first cookie of the header with the designated name
FirstSessionValue(header) == header[CHOOSE i \in 1..Len(header) : header[i].Name = cookieName /\ \A j \in 1..(i - 1) : header[j].Name # cookieName].Value

\* this step is the arrival of a request in slot r
Arrives(r) == hpc[r] # "dial" /\ hpc'[r] = "dial"

\* each backend has received nothing or exactly the copy prepared for it
SentAsPrepared == \A r \in Slots : toAlternative[r] \in {<<>>, alternativeRequest[r]} /\ toProduction[r] \in {<<>>, productionRequest[r]}

\* C5: when the goroutine has ended, this request has Set the cache exactly
\* when the production response carried a session cookie, the alternative
\* dispatch succeeded and the alternative response carried one too; the entry
\* is production cookie value -> alternative cookie value, and it is what the
\* cache holds for that key until it expires.
CacheUpdateCondition ==
    \A r \in Slots :
        spc[r] = "done" =>
            LET reference == SessionSetCookies(resp[r][1].SetCookie)
                updates == reference # <<>> /\ shadowErr[r] = Nil /\ alternativeCookie[r] # NilCookie
            IN  /\ cacheWrite[r] = IF updates THEN << <<reference[1].Value, alternativeCookie[r].Value>> >> ELSE <<>>
                /\ updates /\ now <= lastSet[reference[1].Value].Expiration =>
                       /\ reference[1].Value \in DOMAIN SessionCache
                       /\ SessionCache[reference[1].Value].Object = alternativeCookie[r].Value

\* the key is the production response's cookie s2, not the inbound cookie s1
CacheUpdateConditionWitness ==
    /\ spc["r1"] = "done"
    /\ req["r1"] = <<NoBody(<<Cookie("PHPSESSID", "s1")>>)>>
    /\ cacheWrite["r1"] = << <<"s2", "q1">> >>
    /\ "s2" \in DOMAIN SessionCache /\ SessionCache["s2"].Object = "q1"
    /\ "s1" \notin DOMAIN SessionCache

\* C6: a request arriving with the cookie PHPSESSID=k while the cache holds an
\* unexpired k -> v gets an alternative copy whose only PHPSESSID value is v
\* and a production copy with the inbound Cookie header; each backend is sent
\* its copy.
CookieRewriteOnHit ==
    /\ [][\A r \in Slots : Arrives(r) =>
            LET header == req'[r][1].Cookie
            IN  SessionValues(header) # {} =>
                  LET k == FirstSessionValue(header)
                  IN  k \in DOMAIN SessionCache /\ now <= SessionCache[k].Expiration =>
                        /\ SessionValues(alternativeRequest'[r][1].Cookie) = {SessionCache[k].Object}
                        /\ productionRequest'[r][1].Cookie = header]_vars
    /\ []SentAsPrepared

\* the cache mapped s1 -> q2: the alternative backend got q2, the production one s1
CookieRewriteOnHitWitness ==
    /\ req["r1"] = <<NoBody(<<Cookie("lang", "en"), Cookie("PHPSESSID", "s1")>>)>>
    /\ toAlternative["r1"] = <<NoBody(<<Cookie("PHPSESSID", "q2")>>)>>
    /\ toProduction["r1"] = req["r1"]

\* C7: a request arriving without a PHPSESSID cookie, or with one whose value
\* has no entry or only an expired entry in the cache, gets an alternative copy
\* equal to the inbound request, so that both backends are sent the inbound
\* Cookie header.
NoRewriteOnMiss ==
    /\ [][\A r \in Slots : Arrives(r) =>
            LET header == req'[r][1].Cookie
                miss == \/ SessionValues(header) = {}
                        \/ FirstSessionValue(header) \notin DOMAIN SessionCache
                        \/ now > SessionCache[FirstSessionValue(header)].Expiration
            IN  miss => alternativeRequest'[r] = req'[r] /\ productionRequest'[r] = req'[r]]_vars
    /\ [](\A r \in Slots : alternativeRequest[r] = req[r] => toAlternative[r] \in {<<>>, req[r]} /\ toProduction[r] \in {<<>>, req[r]})

\* the entry for s1 is still stored but has expired: both backends got s1
NoRewriteOnMissWitness ==
    /\ req["r1"] = <<NoBody(<<Cookie("PHPSESSID", "s1")>>)>>
    /\ lookup["r1"] = "MISS"
    /\ "s1" \in DOMAIN SessionCache /\ now > SessionCache["s1"].Expiration
    /\ toAlternative["r1"] = req["r1"] /\ toProduction["r1"] = req["r1"]

\* C8: whenever an entry of the cache appears or changes, the step is the end of
\* one request's goroutine, the key is the session cookie of that request's
\* production response and the value the session cookie of that same
\* request's alternative response.
NoCrossSessionCorruption ==
    [][\A k \in DOMAIN SessionCache' :
          (k \notin DOMAIN SessionCache \/ SessionCache'[k] # SessionCache[k]) =>
              \E r \in Slots :
                  /\ spc[r] = "read" /\ spc'[r] = "done"
                  /\ SessionSetCookies(resp[r][1].SetCookie) # <<>>
                  /\ SessionSetCookies(resp[r][1].SetCookie)[1].Value = k
                  /\ alternativeCookie'[r].Value = SessionCache'[k].Object]_vars

\* r2 stored s2 -> q2 while r1, whose production cookie is s1, was in flight,
\* and r1 then stored s1 -> q1
NoCrossSessionCorruptionWitness ==
    /\ cacheWrite["r1"] = << <<"s1", "q1">> >> /\ cacheWrite["r2"] = << <<"s2", "q2">> >>
    /\ DOMAIN SessionCache = {"s1", "s2"}
    /\ SessionCache["s1"].Object = "q1" /\ SessionCache["s2"].Object = "q2"
    /\ hpc["r1"] = "ret" /\ hpc["r2"] = "ret"

\* C9: a request arriving with PHPSESSID=k, when the latest Set of k stored v and
\* has not expired, gets an alternative copy whose only PHPSESSID value is v,
\* and that copy is what the alternative backend is sent.
SessionAffinity ==
    /\ [][\A r \in Slots : Arrives(r) =>
            LET header == req'[r][1].Cookie
            IN  SessionValues(header) # {} =>
                  LET k == FirstSessionValue(header)
                  IN  k \in DOMAIN lastSet /\ now <= lastSet[k].Expiration =>
                        SessionValues(alternativeRequest'[r][1].Cookie) = {lastSet[k].Object}]_vars
    /\ [](\A r \in Slots : toAlternative[r] \in {<<>>, alternativeRequest[r]})

\* s2 -> q1 was stored at 0; a request with s2 arriving at the last unexpired
\* instant sent q1 to the alternative backend
SessionAffinityWitness ==
    /\ now = DefaultExpiration
    /\ "s2" \in DOMAIN lastSet /\ lastSet["s2"] = [Object |-> "q1", Expiration |-> DefaultExpiration]
    /\ req["r1"] = <<NoBody(<<Cookie("PHPSESSID", "s2"), Cookie("lang", "en")>>)>>
    /\ toAlternative["r1"] = <<NoBody(<<Cookie("PHPSESSID", "q1")>>)>>

\* C10: every key that was ever Set holds, until its expiry, exactly the item
\* of the latest Set of that key; and when both slots' goroutines have Set the
\* same key, its value is that of one of the two.
LastWriteWins ==
    /\ \A k \in DOMAIN lastSet :
          now <= lastSet[k].Expiration => k \in DOMAIN SessionCache /\ SessionCache[k] = lastSet[k]
    /\ \A r \in Slots, o \in Slots :
          /\ r # o /\ cacheWrite[r] # <<>> /\ cacheWrite[o] # <<>>
          /\ cacheWrite[r][1][1] = cacheWrite[o][1][1]
          => /\ cacheWrite[r][1][1] \in DOMAIN SessionCache
             /\ SessionCache[cacheWrite[r][1][1]].Object \in {cacheWrite[r][1][2], cacheWrite[o][1][2]}

\* r2 Set s1 to q2 while r1's goroutine, with the same key, was in flight; r1
\* then Set it to q1, which is the final value; the entry of s2 is still there
LastWriteWinsWitness ==
    /\ raced["r2"]
    /\ cacheWrite["r1"] = << <<"s1", "q1">> >> /\ cacheWrite["r2"] = << <<"s1", "q2">> >>
    /\ DOMAIN SessionCache = {"s1", "s2"}
    /\ SessionCache["s1"].Object = "q1"

\* C11: at every instant a Get of a key returns the value of the latest Set of
\* that key as long as that Set has not expired, and nil otherwise, also while
\* the expired item is still stored; a request arriving with PHPSESSID=k is
\* looked up accordingly: the latest value before the expiry, a miss with an
\* unchanged alternative copy after it.
CacheReadAfterWrite ==
    /\ [](\A k \in {"s1", "s2", "q1"} :
            CacheGet(SessionCache, k, now) =
                IF k \in DOMAIN lastSet /\ now <= lastSet[k].Expiration THEN lastSet[k].Object ELSE Nil)
    /\ [][\A r \in Slots : Arrives(r) /\ SessionValues(req'[r][1].Cookie) # {} =>
            LET k == FirstSessionValue(req'[r][1].Cookie)
            IN  IF k \in DOMAIN lastSet /\ now <= lastSet[k].Expiration
                THEN lookup'[r] = lastSet[k].Object
                ELSE lookup'[r] = "MISS" /\ alternativeRequest'[r] = req'[r]]_vars

\* s2 -> q1 was Set at 0 and expired at 24; the item is still stored when a
\* request with s2 arrives after that and misses
CacheReadAfterWriteWitness ==
    /\ "s2" \in DOMAIN lastSet /\ lastSet["s2"] = [Object |-> "q1", Expiration |-> DefaultExpiration]
    /\ "s2" \in DOMAIN SessionCache /\ SessionCache["s2"] = lastSet["s2"]
    /\ now > lastSet["s2"].Expiration
    /\ hpc["r1"] = "dial" /\ lookup["r1"] = "MISS"
    /\ SessionValues(req["r1"][1].Cookie) = {"s2"}

\* C12: a request whose body could not be read to its end is aborted: no
\* connection to either backend is opened for it and neither backend is sent
\* a copy carrying the bytes read so far.
DuplicationFailureAborts ==
    \A r \in Slots :
        bodyErr[r] =>
            /\ productionConn[r] = "none" /\ toProduction[r] = <<>>
            /\ spc[r] = "none" /\ alternativeConn[r] = "none" /\ toAlternative[r] = <<>>

\* C14: once the handler is through with the relay, whatever it has written to
\* the caller is a complete response: the body has the length its
\* Content-Length header announces.
NoPartialRelay ==
    \A r \in Slots :
        hpc[r] # "body" => \A i \in 1..Len(w[r]) : Len(w[r][i].Body) = w[r][i].ContentLength

\* C13: once DuplicateRequest has returned, both copies have the method, URL,
\* host, content length and body of the request passed in; the header of the
\* request passed in still reads as it did, and so does the header of every
\* copy that was not written to since, whatever was deleted from, set in,
\* appended to or overwritten in a list of the other copy's header.
DuplicationFidelity ==
    copies # <<>> =>
        /\ \A i \in {1, 2} :
              /\ copies[i].Method = inbound[1].Method
              /\ copies[i].URL = inbound[1].URL
              /\ copies[i].Host = inbound[1].Host
              /\ copies[i].ContentLength = inbound[1].ContentLength
              /\ copies[i].Body = inbound[1].Body
              /\ i \notin touched => View(heap, copies[i].Header) = inbound[1].Header
        /\ View(heap, "request.Header") = inbound[1].Header

\* the POST with two header keys was duplicated; in the first copy the second
\* Accept line was overwritten and the Cookie header replaced: the second copy
\* and the request itself read as before
DuplicationFidelityWitness ==
    /\ copies # <<>> /\ touched = {1}
    /\ inbound[1].Method = "POST" /\ inbound[1].Body = "ab" /\ copies[2].Body = "ab"
    /\ "Accept" \in DOMAIN inbound[1].Header
    /\ inbound[1].Header["Accept"] = << <<"text/html">>, <<"*/*">> >>
    /\ View(heap, copies[1].Header)["Accept"] = << <<"text/html">>, <<"text/plain">> >>
    /\ HeaderGet(heap, copies[1].Header, "Cookie") = <<"PHPSESSID=q1">>
    /\ View(heap, copies[2].Header) = inbound[1].Header
    /\ View(heap, "request.Header") = inbound[1].Header

\* C15: the session cookie is recognised whatever the case of its name, in all
\* three places: a request arriving with a cookie named PHPSESSID in any case,
\* whose value has an unexpired entry in the cache, is looked up and hits; and
\* the cookie picked from the production response, like the one picked from
\* the alternative response, is the first whose name is PHPSESSID in any case.
CaseInsensitiveCookieName ==
    /\ [][\A r \in Slots : Arrives(r) =>
            LET header == req'[r][1].Cookie
                hits == {j \in 1..Len(header) : EqualFold(header[j].Name, cookieName)}
            IN  hits # {} =>
                  LET k == header[CHOOSE i \in hits : \A j \in hits : i <= j].Value
                  IN  CacheGet(SessionCache, k, now) # Nil => lookup'[r] = CacheGet(SessionCache, k, now)]_vars
    /\ [](\A r \in Slots :
            /\ hpc[r] \in {"go", "ret", "done"} /\ resp[r] # <<>> =>
                  productionCookie[r] = IF SessionSetCookies(resp[r][1].SetCookie) # <<>>
                                        THEN SessionSetCookies(resp[r][1].SetCookie)[1] ELSE NilCookie
            /\ alternativeCookie[r] # NilCookie => EqualFold(alternativeCookie[r].Name, cookieName))

\* the order of the positions of ServeHTTP; a failed step leads to the return
HandlerOrder ==
    { <<"idle", "dial">>, <<"done", "dial">>, <<"dial", "write">>, <<"write", "read">>,
      <<"read", "relay">>, <<"relay", "body">>, <<"body", "go">>, <<"go", "ret">>, <<"ret", "done">>,
      <<"dial", "ret">>, <<"write", "ret">>, <<"read", "ret">> }

\* the order of the positions of the goroutine; a failed step ends it
GoroutineOrder ==
    { <<"none", "dial">>, <<"dial", "write">>, <<"write", "read">>, <<"read", "done">>,
      <<"dial", "done">>, <<"write", "done">>, <<"done", "none">> }

\* C16: a request goes through its steps in one order: arrival with duplication
\* and cache lookup, production dial, send and receive, relay to the caller,
\* start of the goroutine, return; the goroutine dials, sends, receives and
\* ends with or without a Set.  No step is skipped or repeated.  The lookup and
\* the rewrite are over before the production backend is dialled and are not
\* redone; the goroutine starts in the go statement only, after the production
\* response was read and written to the caller; a Set comes after the
\* alternative backend was sent the request.
RequestOrdering ==
    /\ [][\A r \in Slots :
            /\ hpc'[r] # hpc[r] => <<hpc[r], hpc'[r]>> \in HandlerOrder
            /\ spc'[r] # spc[r] => <<spc[r], spc'[r]>> \in GoroutineOrder
            /\ spc[r] = "none" /\ spc'[r] = "dial" => hpc[r] = "go" /\ hpc'[r] = "ret"
            /\ ~Arrives(r) => lookup'[r] = lookup[r] /\ alternativeRequest'[r] = alternativeRequest[r]
                                /\ productionRequest'[r] = productionRequest[r]]_vars
    /\ [](\A r \in Slots :
            /\ hpc[r] = "dial" => dials[r].production = 0 /\ productionConn[r] = "none" /\ toProduction[r] = <<>>
                                    /\ productionRequest[r] # <<>> /\ alternativeRequest[r] # <<>>
            /\ spc[r] # "none" \/ dials[r].alternative > 0 \/ toAlternative[r] # <<>> =>
                  resp[r] # <<>> /\ w[r] = resp[r] /\ toProduction[r] # <<>>
            /\ cacheWrite[r] # <<>> => spc[r] = "done" /\ toAlternative[r] # <<>>)

\* a request that hit the cache went through every step and ended with a Set
RequestOrderingWitness ==
    /\ hpc["r1"] = "done" /\ spc["r1"] = "done"
    /\ lookup["r1"] = "q1" /\ toProduction["r1"] = req["r1"] /\ client["r1"] = resp["r1"]
    /\ toAlternative["r1"] # <<>> /\ cacheWrite["r1"] = << <<"s1", "q2">> >>

\* slot r's handler has returned and its goroutine, if any, has ended
Finished(r) == hpc[r] = "done" /\ spc[r] \in {"none", "done"}

\* C17 as stated: a finished request has had exactly one production dispatch
\* and exactly one alternative dispatch, each sending its own copy once.
ExactlyOneDispatchEach ==
    \A r \in Slots :
        Finished(r) =>
            /\ dials[r].production = 1 /\ dials[r].alternative = 1
            /\ Len(toProduction[r]) <= 1 /\ Len(toAlternative[r]) <= 1

\* C17, amended: a request is never dispatched twice to the same backend, and
\* a backend is sent nothing but the copy made for it, at most once; the
\* production backend is dialled exactly once for every request, and the
\* alternative backend exactly once when the production dispatch succeeded and
\* not at all when it failed.
DispatchCount ==
    \A r \in Slots :
        /\ dials[r].production <= 1 /\ dials[r].alternative <= 1
        /\ Len(toProduction[r]) <= 1 /\ Len(toAlternative[r]) <= 1
        /\ toProduction[r] \in {<<>>, productionRequest[r]}
        /\ toAlternative[r] \in {<<>>, alternativeRequest[r]}
        /\ hpc[r] \notin {"idle", "dial"} => dials[r].production = 1
        /\ Finished(r) => dials[r].alternative = IF primaryErr[r] = Nil THEN 1 ELSE 0

\* a request whose production dispatch failed while sending: one production
\* dial, no alternative dial, nothing sent to the alternative backend
DispatchCountWitness ==
    /\ Finished("r1") /\ primaryErr["r1"] = "send"
    /\ dials["r1"] = [production |-> 1, alternative |-> 0]
    /\ toProduction["r1"] = <<>> /\ toAlternative["r1"] = <<>>

\* C18: each dial opens a connection of its own, which carries at most the one
\* request of that dispatch; a connection is open only while the function
\* that dialled it runs, and it is closed when that function has ended, by a
\* connect, send or receive error, by a panic or normally: when ServeHTTP has
\* returned its connection is closed exactly if the dial had succeeded, and
\* the same holds for the goroutine.
ConnectionLifecycle ==
    \A r \in Slots :
        /\ productionConn[r] = "open" => hpc[r] \in {"write", "read", "relay", "body", "go", "ret"}
        /\ alternativeConn[r] = "open" => spc[r] \in {"write", "read"}
        /\ hpc[r] = "done" => productionConn[r] = IF primaryErr[r] = "connect" THEN "none" ELSE "closed"
        /\ spc[r] = "done" => alternativeConn[r] \in {"none", "closed"}
        /\ spc[r] = "done" /\ shadowErr[r] \in {Nil, "send", "receive"} => alternativeConn[r] = "closed"
        /\ spc[r] = "done" /\ shadowErr[r] = "connect" => alternativeConn[r] = "none"
        /\ productionConn[r] # "none" => dials[r].production = 1
        /\ alternativeConn[r] # "none" => dials[r].alternative = 1
        /\ Len(toProduction[r]) <= 1 /\ (toProduction[r] # <<>> => productionConn[r] # "none")
        /\ Len(toAlternative[r]) <= 1 /\ (toAlternative[r] # <<>> => alternativeConn[r] # "none")

\* r1's production reply could not be read and r2's goroutine panicked with
\* its connection open: the connections they had opened are closed
ConnectionLifecycleWitness ==
    /\ hpc["r1"] = "done" /\ primaryErr["r1"] = "receive" /\ productionConn["r1"] = "closed"
    /\ hpc["r2"] = "done" /\ shadowErr["r2"] = "panic" /\ spc["r2"] = "done"
    /\ alternativeConn["r2"] = "closed" /\ productionConn["r2"] = "closed"

\* C19: wherever the other requests and their goroutines stand, and so also
\* while one of them waits without end for a backend, the next step of a
\* request is possible: its handler can dial, send, take any reply of the
\* production backend, relay it, start the goroutine and return; its goroutine
\* can dial, send, take any reply and with it update the cache; and a free slot
\* can take a new request with its cache lookup.
RequestIsolation ==
    \A r \in Slots :
        /\ hpc[r] = "dial" => ENABLED DialProduction(r, TRUE)
        /\ hpc[r] = "write" => ENABLED WriteProduction(r, TRUE)
        /\ hpc[r] = "read" => \A result \in Results(FewProductionResponses) : ENABLED ReadProduction(r, result)
        /\ hpc[r] = "relay" => ENABLED RelayHeader(r)
        /\ hpc[r] = "body" => ENABLED RelayBody(r)
        /\ hpc[r] = "go" => ENABLED Spawn(r)
        /\ hpc[r] = "ret" => ENABLED Return(r)
        /\ spc[r] = "dial" => ENABLED DialAlternative(r, TRUE)
        /\ spc[r] = "write" => ENABLED WriteAlternative(r, TRUE)
        /\ spc[r] = "read" => \A result \in Results(FewAlternativeResponses) : ENABLED ReadAlternative(r, result)
        /\ Finished(r) => \A request \in FewRequests : ENABLED Receive(r, request)

\* r1 still waits for the reply of the production backend while r2 was served
\* on a cache hit and its goroutine stored a mapping
RequestIsolationWitness ==
    /\ hpc["r1"] = "read" /\ toProduction["r1"] # <<>>
    /\ Finished("r2") /\ Served("r2") /\ client["r2"] = resp["r2"]
    /\ lookup["r2"] = "q1" /\ cacheWrite["r2"] = << <<"s1", "q2">> >>
    /\ SessionCache["s1"].Object = "q2"

\* C20: a request arriving with PHPSESSID=k while Get(k) returns v gets an
\* alternative copy whose Cookie header is the one cookie PHPSESSID=v, every
\* other inbound cookie being gone, and whose other fields are the inbound
\* ones; on a miss, and without the cookie, the alternative copy is the inbound
\* request with all its cookies.  The production copy is the inbound request
\* in every case, and each backend is sent its copy.
CookieHeaderReplacement ==
    /\ [][\A r \in Slots : Arrives(r) =>
            LET header == req'[r][1].Cookie
                hit == SessionValues(header) # {} /\ CacheGet(SessionCache, FirstSessionValue(header), now) # Nil
            IN  /\ productionRequest'[r] = req'[r]
                /\ alternativeRequest'[r] =
                      IF hit
                      THEN <<[req'[r][1] EXCEPT !.Cookie = <<Cookie(cookieName, CacheGet(SessionCache, FirstSessionValue(header), now))>>]>>
                      ELSE req'[r]]_vars
    /\ [](\A r \in Slots : toProduction[r] \in {<<>>, productionRequest[r]} /\ toAlternative[r] \in {<<>>, alternativeRequest[r]})

\* the cache mapped s2 -> q2: of the two inbound cookies the alternative backend
\* got the rewritten one only, the production backend both
CookieHeaderReplacementWitness ==
    /\ req["r1"] = <<NoBody(<<Cookie("PHPSESSID", "s2"), Cookie("lang", "en")>>)>>
    /\ toAlternative["r1"] = <<NoBody(<<Cookie("PHPSESSID", "q2")>>)>>
    /\ toProduction["r1"] = req["r1"]
====
